---- MODULE Spec2Model ----
(***************************************************************************)
(* Developer-comment extraction (src/documentation/developer.rs), the      *)
(* chunk source map (src/documentation/chunk.rs) and the dictionary search *)
(* directories (src/config/search_dirs.rs) of cargo-spellcheck.            *)
(*                                                                         *)
(* A Rust string is a sequence of Unicode scalars; every scalar is a one   *)
(* character TLA+ string.  "Z" stands for a scalar that takes three bytes  *)
(* in UTF-8 (the tests use U+4E2D); every other scalar takes one byte.     *)
(* Byte offsets and scalar counts are therefore different numbers, as in   *)
(* the program.                                                            *)
(***************************************************************************)
EXTENDS Integers, Sequences, FiniteSets, TLC

VARIABLES
    pc,                 \* which function of the program has run last
    source,             \* the source string given to the pipeline
    with_location,      \* Vec<TokenWithLocation>
    with_line_column,   \* Vec<TokenWithLineColumn>
    with_type,          \* Vec<TokenWithType>
    retained,           \* Vec<TokenWithType> after retain_only_developer_comments
    literal_sets,       \* Vec<LiteralSet>, the result of extract_developer_comments
    chunk,              \* a CheckableChunk: content and source_mapping
    query,              \* the Range given to find_spans
    overflow_checks,    \* TRUE in a build that panics on integer overflow
    spans,              \* what find_spans returned
    target_os,          \* cfg!(target_os): "macos", "linux" or "other"
    base_dirs,          \* what directories::BaseDirs::new() returns
    once,               \* state of the Once behind the lazy static
    OS_SPECIFIC_LOOKUP_DIRS,    \* the lazy static of os_specific_search_dirs
    initialized,        \* how many times the initializer of the static ran
    threads,            \* the calls of each thread into search_dirs.rs
    converted           \* what the two literal converters returned for each token

vars == <<pc, source, with_location, with_line_column, with_type, retained,
          literal_sets, chunk, query, overflow_checks, spans,
          target_os, base_dirs, once, OS_SPECIFIC_LOOKUP_DIRS, initialized, threads,
          converted>>

\* the variables of the comment pipeline, and those of the chunk
pipeline_vars == <<source, with_location, with_line_column, with_type, retained,
                   literal_sets>>

chunk_vars == <<chunk, query, overflow_checks, spans>>

\* the results of the converters called token by token
convert_vars == <<converted>>

\* the variables of the search directories
dirs_vars == <<target_os, base_dirs, once, OS_SPECIFIC_LOOKUP_DIRS, initialized, threads>>

-----------------------------------------------------------------------------
(* Bounds of the model *)

\* number of source fragments concatenated into one source string
MaxFragments == 3

\* longest token content, in scalars, given to the classifier on its own
MaxTokenLen == 4

\* last source line that may hold a token given to literal_sets_from_line_comments
MaxLine == 4

\* longest chunk content, in scalars, and most entries of a source_mapping
MaxContent == 3

MaxRanges == 2

\* threads that call into search_dirs.rs
NumThreads == 2

\* serialize-then-deserialize round trips a thread makes with one value
MaxTrips == 2

-----------------------------------------------------------------------------
(* Strings *)

NL == "\n"

\* UTF-8 width of a scalar
Utf8Len(c) == IF c = "Z" THEN 3 ELSE 1

RECURSIVE ByteLen(_)
\* str::len(): length in bytes
ByteLen(s) == IF s = <<>> THEN 0 ELSE Utf8Len(Head(s)) + ByteLen(Tail(s))

\* str::chars().count(): length in scalars
CharsCount(s) == Len(s)

\* byte offset at which the i-th scalar (1-based) of s starts
ByteOffsetOf(s, i) == ByteLen(SubSeq(s, 1, i - 1))

RECURSIVE ByteSliceFrom(_, _, _, _, _)
\* the scalars of s from the i-th on that lie wholly inside [from, to);
\* offset is the byte at which the i-th scalar starts
ByteSliceFrom(s, i, offset, from, to) ==
    IF i > Len(s) \/ offset >= to THEN <<>>
    ELSE LET next == offset + Utf8Len(s[i])
         IN  (IF from <= offset /\ next <= to THEN <<s[i]>> ELSE <<>>)
                \o ByteSliceFrom(s, i + 1, next, from, to)

\* &s[from..to] with byte offsets: the scalars lying wholly inside [from, to)
ByteSlice(s, from, to) == ByteSliceFrom(s, 1, 0, from, to)

StartsWith(s, p) == Len(s) >= Len(p) /\ SubSeq(s, 1, Len(p)) = p

EndsWith(s, p) == Len(s) >= Len(p) /\ SubSeq(s, Len(s) - Len(p) + 1, Len(s)) = p

RECURSIVE Concat(_)
Concat(ss) == IF ss = <<>> THEN <<>> ELSE Head(ss) \o Concat(Tail(ss))

-----------------------------------------------------------------------------
(* Constants of developer.rs *)

BLOCK_COMMENT_PREFIX == <<"/", "*">>
LINE_COMMENT_PREFIX == <<"/", "/">>
OTHER_PREFIX == <<>>
BLOCK_COMMENT_POSTFIX == <<"*", "/">>
LINE_COMMENT_POSTFIX == <<>>
OTHER_POSTFIX == <<>>

\* Regex ^/\*(?s)(?P<content>.*)\*/$ : "/*", anything (newlines too), "*/"
BLOCK_COMMENT_is_match(content) ==
    /\ Len(content) >= Len(BLOCK_COMMENT_PREFIX) + Len(BLOCK_COMMENT_POSTFIX)
    /\ StartsWith(content, BLOCK_COMMENT_PREFIX)
    /\ EndsWith(content, BLOCK_COMMENT_POSTFIX)

\* The class [^[/|!]] : a negated class holding the nested class [/|!]
LineCommentExcluded == {"/", "|", "!"}

\* Regex ^//([^[/|!]].*)$ : "//", one scalar outside the class, then scalars
\* other than newline up to the end of the text
LINE_COMMENT_is_match(content) ==
    /\ Len(content) >= Len(LINE_COMMENT_PREFIX) + 1
    /\ StartsWith(content, LINE_COMMENT_PREFIX)
    /\ content[Len(LINE_COMMENT_PREFIX) + 1] \notin LineCommentExcluded
    /\ \A i \in (Len(LINE_COMMENT_PREFIX) + 2)..Len(content) : content[i] # NL

\* TokenType::pre
pre(kind) ==
    CASE kind = "BlockComment" -> BLOCK_COMMENT_PREFIX
      [] kind = "LineComment" -> LINE_COMMENT_PREFIX
      [] OTHER -> OTHER_PREFIX

\* TokenType::post
post(kind) ==
    CASE kind = "BlockComment" -> BLOCK_COMMENT_POSTFIX
      [] kind = "LineComment" -> LINE_COMMENT_POSTFIX
      [] OTHER -> OTHER_POSTFIX

pre_in_chars(kind) == CharsCount(pre(kind))

post_in_chars(kind) == CharsCount(post(kind))

-----------------------------------------------------------------------------
(* The lexer behind ra_ap_syntax::tokenize *)

IsWhitespace(c) == c \in {" ", NL}

IsIdent(c) == c \in {"a", "b", "Z"}

RECURSIVE LineCommentEnd(_, _)
\* index of the last scalar of a line comment whose scalars up to i are eaten
LineCommentEnd(s, i) ==
    IF i + 1 <= Len(s) /\ s[i + 1] # NL THEN LineCommentEnd(s, i + 1) ELSE i

RECURSIVE BlockCommentEnd(_, _, _)
\* index of the last scalar of a (nesting) block comment; i is the next
\* scalar to eat, depth the number of comments still open
BlockCommentEnd(s, i, depth) ==
    IF i > Len(s) THEN Len(s)
    ELSE IF s[i] = "/" /\ i + 1 <= Len(s) /\ s[i + 1] = "*"
         THEN BlockCommentEnd(s, i + 2, depth + 1)
    ELSE IF s[i] = "*" /\ i + 1 <= Len(s) /\ s[i + 1] = "/"
         THEN IF depth = 1 THEN i + 1 ELSE BlockCommentEnd(s, i + 2, depth - 1)
    ELSE BlockCommentEnd(s, i + 1, depth)

RECURSIVE RunEnd(_, _, _)
\* index of the last scalar of the run of whitespace (ws) or identifier
\* scalars that holds s[i]
RunEnd(s, i, ws) ==
    IF i + 1 <= Len(s) /\ (IF ws THEN IsWhitespace(s[i + 1]) ELSE IsIdent(s[i + 1]))
    THEN RunEnd(s, i + 1, ws) ELSE i

\* index of the last scalar of the token that starts at s[i]
TokenEnd(s, i) ==
    IF s[i] = "/" /\ i + 1 <= Len(s) /\ s[i + 1] = "/" THEN LineCommentEnd(s, i + 1)
    ELSE IF s[i] = "/" /\ i + 1 <= Len(s) /\ s[i + 1] = "*" THEN BlockCommentEnd(s, i + 2, 1)
    ELSE IF IsWhitespace(s[i]) THEN RunEnd(s, i, TRUE)
    ELSE IF IsIdent(s[i]) THEN RunEnd(s, i, FALSE)
    ELSE i

RECURSIVE TokenizeFrom(_, _)
TokenizeFrom(s, i) ==
    IF i > Len(s) THEN <<>>
    ELSE LET e == TokenEnd(s, i)
         IN  <<ByteLen(SubSeq(s, i, e))>> \o TokenizeFrom(s, e + 1)

\* tokenize(source).0 : the byte length of every token, in order
tokenize(s) == TokenizeFrom(s, 1)

-----------------------------------------------------------------------------
(* developer.rs, tokens with their coordinates *)

RECURSIVE TokensWithLocationLoop_Scalars(_, _, _)
\* the loop with the location advanced by the token's scalars, not its bytes
TokensWithLocationLoop_Scalars(src, lens, location) ==
    IF lens = <<>> THEN <<>>
    ELSE LET length == Head(lens)
             content == ByteSlice(src, location, location + length)
         IN  <<[content |-> content, location |-> location]>>
             \o TokensWithLocationLoop_Scalars(src, Tail(lens),
                                               location + CharsCount(content))

RECURSIVE TokensWithLocationLoop(_, _, _)
\* the loop of source_to_tokens_with_location: one push and one
\* "location += length" for every token of the lexer
TokensWithLocationLoop(src, lens, location) ==
    IF lens = <<>> THEN <<>>
    ELSE LET length == Head(lens)
         IN  <<[content |-> ByteSlice(src, location, location + length),
                location |-> location]>>
             \o TokensWithLocationLoop(src, Tail(lens), location + length)

source_to_tokens_with_location(src) ==
    TokensWithLocationLoop(src, tokenize(src), 0)

\* count_lines
count_lines(fragment) ==
    Cardinality({i \in 1..Len(fragment) : fragment[i] = NL}) + 1

\* calculate_column counting bytes after the last newline instead of scalars
calculate_column_Bytes(fragment) ==
    LET nls == {i \in 1..Len(fragment) : fragment[i] = NL}
    IN  IF nls # {}
        THEN LET last == CHOOSE i \in nls : \A j \in nls : j <= i
             IN  ByteLen(fragment) - ByteOffsetOf(fragment, last) - 1
        ELSE ByteLen(fragment)

\* calculate_column: rfind gives the byte offset p of the last newline,
\* fragment[..p] is the text before it
calculate_column(fragment) ==
    LET nls == {i \in 1..Len(fragment) : fragment[i] = NL}
    IN  IF nls # {}
        THEN LET last == CHOOSE i \in nls : \A j \in nls : j <= i
                 p == ByteOffsetOf(fragment, last)
             IN  CharsCount(fragment) - CharsCount(ByteSlice(fragment, 0, p)) - 1
        ELSE CharsCount(fragment)

tokens_with_location_to_tokens_with_line_and_column(src, tokens_in) ==
    [i \in 1..Len(tokens_in) |->
        [content |-> tokens_in[i].content,
         line |-> count_lines(ByteSlice(src, 0, tokens_in[i].location)),
         column |-> calculate_column(ByteSlice(src, 0, tokens_in[i].location))]]

\* TokenWithType::from
TokenWithType_from(token) ==
    [kind |-> IF BLOCK_COMMENT_is_match(token.content) THEN "BlockComment"
              ELSE IF LINE_COMMENT_is_match(token.content) THEN "LineComment"
              ELSE "Other",
     content |-> token.content,
     line |-> token.line,
     column |-> token.column]

token_with_line_column_to_token_with_type(tokens_in) ==
    [i \in 1..Len(tokens_in) |-> TokenWithType_from(tokens_in[i])]

RetainedToken(t) == t.kind # "Other"

retain_only_developer_comments(tokens) == SelectSeq(tokens, RetainedToken)

-----------------------------------------------------------------------------
(* TrimmedLiteral and LiteralSet (literalset.rs, described in sections 3,  *)
(* 4.4 and 4.5 of the specification)                                       *)

Ok(v) == [ok |-> TRUE, value |-> v]

Err == [ok |-> FALSE]

\* the span of a single-line literal
LiteralSpan(len, pre_scalars, post_scalars, line, column) ==
    [start |-> [line |-> line, column |-> column + pre_scalars],
     end |-> [line |-> line, column |-> column + len - post_scalars - 1]]

\* TrimmedLiteral::from: fails when raw is shorter than pre + post scalars or
\* when the end column, column + len - post - 1, would wrap below zero
TrimmedLiteral_from(content, pre_scalars, post_scalars, line, column) ==
    LET len == CharsCount(content)
    IN  IF len < pre_scalars + post_scalars \/ column + len < post_scalars + 1
        THEN Err
        ELSE Ok([raw |-> content,
                 pre |-> pre_scalars,
                 post |-> post_scalars,
                 line |-> line,
                 column |-> column,
                 span |-> LiteralSpan(len, pre_scalars, post_scalars, line, column)])

\* LiteralSet::from
LiteralSet_from(literal) == <<literal>>

\* LiteralSet::add_adjacent: appends iff the literal is on the line after the
\* last literal of the set, otherwise hands the literal back
add_adjacent(set, literal) ==
    IF literal.line = set[Len(set)].line + 1
    THEN Ok(Append(set, literal))
    ELSE Err

-----------------------------------------------------------------------------
(* developer.rs, literal construction *)

RECURSIVE SplitFrom(_, _, _)
SplitFrom(s, i, cur) ==
    IF i > Len(s) THEN <<cur>>
    ELSE IF s[i] = NL THEN <<cur>> \o SplitFrom(s, i + 1, <<>>)
    ELSE SplitFrom(s, i + 1, Append(cur, s[i]))

\* content.split("\n") : always at least one piece
split_newline(s) == SplitFrom(s, 1, <<>>)

RECURSIVE BlockCommentLines(_, _, _)
\* the "while let Some(next_line) = lines.next()" loop of
\* literal_set_from_block_comment; line_number is the line of the previous
\* literal
BlockCommentLines(lines, line_number, literal_set) ==
    IF lines = <<>> THEN Ok(literal_set)
    ELSE LET next_line == Head(lines)
             post_scalars == IF EndsWith(next_line, BLOCK_COMMENT_POSTFIX)
                             THEN post_in_chars("BlockComment") ELSE 0
             literal == TrimmedLiteral_from(next_line, 0, post_scalars,
                                            line_number + 1, 0)
         IN  IF ~literal.ok THEN Err
             ELSE LET added == add_adjacent(literal_set, literal.value)
                  IN  IF ~added.ok THEN Err
                      ELSE BlockCommentLines(Tail(lines), line_number + 1, added.value)

\* a conversion that trims no postfix from a block comment on one line
literal_set_from_block_comment_NoPostfix(token) ==
    IF token.kind # "BlockComment" THEN Err
    ELSE IF ~BLOCK_COMMENT_is_match(token.content) THEN Err
    ELSE LET lines == split_newline(token.content)
             literal == TrimmedLiteral_from(Head(lines), pre_in_chars(token.kind), 0,
                                            token.line, token.column)
         IN  IF ~literal.ok THEN Err
             ELSE BlockCommentLines(Tail(lines), token.line,
                                    LiteralSet_from(literal.value))

literal_set_from_block_comment(token) ==
    IF token.kind # "BlockComment" THEN Err
    ELSE IF ~BLOCK_COMMENT_is_match(token.content) THEN Err
    ELSE LET lines == split_newline(token.content)
             number_of_lines == Len(lines)
         IN  IF number_of_lines = 1
             THEN LET literal == TrimmedLiteral_from(token.content,
                                     pre_in_chars(token.kind), post_in_chars(token.kind),
                                     token.line, token.column)
                  IN  IF ~literal.ok THEN Err ELSE Ok(LiteralSet_from(literal.value))
             ELSE LET literal == TrimmedLiteral_from(Head(lines),
                                     pre_in_chars(token.kind), 0,
                                     token.line, token.column)
                  IN  IF ~literal.ok THEN Err
                      ELSE BlockCommentLines(Tail(lines), token.line,
                                             LiteralSet_from(literal.value))

\* a converter that does not look at the kind of the token
literal_from_line_comment_AnyKind(token) ==
    TrimmedLiteral_from(token.content, pre_in_chars("LineComment"),
                        post_in_chars("LineComment"), token.line, token.column)

literal_from_line_comment(token) ==
    IF token.kind = "LineComment"
    THEN TrimmedLiteral_from(token.content, pre_in_chars(token.kind),
                             post_in_chars(token.kind), token.line, token.column)
    ELSE Err

\* the match on sets.pop() in literal_sets_from_line_comments: the popped
\* set s goes back onto sets only in the Ok arm
PushLiteral(sets, literal) ==
    IF sets = <<>> THEN <<LiteralSet_from(literal)>>
    ELSE LET s == sets[Len(sets)]
             popped == SubSeq(sets, 1, Len(sets) - 1)
             added == add_adjacent(s, literal)
         IN  IF ~added.ok THEN Append(popped, LiteralSet_from(literal))
             ELSE Append(popped, added.value)

\* one iteration of the for loop of literal_sets_from_line_comments
LineCommentStep(sets, token) ==
    IF token.kind # "LineComment" THEN sets
    ELSE LET literal == literal_from_line_comment(token)
         IN  IF ~literal.ok THEN sets ELSE PushLiteral(sets, literal.value)

RECURSIVE LineCommentLoop(_, _)
LineCommentLoop(sets, tokens) ==
    IF tokens = <<>> THEN sets
    ELSE LineCommentLoop(LineCommentStep(sets, Head(tokens)), Tail(tokens))

literal_sets_from_line_comments(tokens) == LineCommentLoop(<<>>, tokens)

IsBlockComment(t) == t.kind = "BlockComment"

IsLineComment(t) == t.kind = "LineComment"

RECURSIVE BlockCommentSets_StopsAtFailure(_)
\* a loop that gives up at the first block comment that does not convert
BlockCommentSets_StopsAtFailure(comments) ==
    IF comments = <<>> THEN <<>>
    ELSE LET ls == literal_set_from_block_comment(Head(comments))
         IN  IF ls.ok THEN <<ls.value>> \o BlockCommentSets_StopsAtFailure(Tail(comments))
             ELSE <<>>

RECURSIVE BlockCommentSets(_)
\* the "for comment in block_comments" loop of extract_developer_comments
BlockCommentSets(comments) ==
    IF comments = <<>> THEN <<>>
    ELSE LET ls == literal_set_from_block_comment(Head(comments))
         IN  (IF ls.ok THEN <<ls.value>> ELSE <<>>) \o BlockCommentSets(Tail(comments))

\* the sets of the block comments pushed before those of the line comments
CollectLiteralSets_BlocksFirst(tokens) ==
    BlockCommentSets(SelectSeq(tokens, IsBlockComment))
        \o literal_sets_from_line_comments(SelectSeq(tokens, IsLineComment))

\* lines 143-159 of extract_developer_comments, given the retained tokens
CollectLiteralSets(tokens) ==
    LET block_comments == SelectSeq(tokens, IsBlockComment)
        line_comments == SelectSeq(tokens, IsLineComment)
    IN  literal_sets_from_line_comments(line_comments) \o BlockCommentSets(block_comments)

extract_developer_comments(src) ==
    CollectLiteralSets(
        retain_only_developer_comments(
            token_with_line_column_to_token_with_type(
                tokens_with_location_to_tokens_with_line_and_column(
                    src, source_to_tokens_with_location(src)))))

-----------------------------------------------------------------------------
(* The pipeline as a state machine: one action per function, in the order  *)
(* extract_developer_comments composes them                                *)

\* pieces of Rust source the sources of the model are made of
Fragments ==
    { <<"/", "/", "a">>,                          \* // line comment
      <<"/", "/", "/", "a">>,                     \* /// outer doc comment
      <<"/", "/", "!", "a">>,                     \* //! inner doc comment
      <<"/", "*", "a", "*", "/">>,                \* /*a*/
      <<"/", "*", "*", "/">>,                     \* /**/
      <<"/", "*", "*", "a", "*", "/">>,           \* /**a*/ outer doc block
      <<"/", "*", "!", "a", "*", "/">>,           \* /*!a*/ inner doc block
      <<"/", "*", NL, "*", "/">>,                 \* first line /*, last line */
      <<"/", "*", "a", NL, NL, "b", "*", "/">>,   \* an empty middle line
      <<"/", "*", "a", NL, "Z", NL, "b", "*", "/">>,
      <<"/", "*", "/", "*", NL, "a", "*", "/", NL, "b", "*", "/">>,  \* nested
      <<NL>>, <<"a">>, <<"Z">> }

Sources ==
    {Concat(fs) : fs \in UNION {[1..n -> Fragments] : n \in 0..MaxFragments}}

\* the pipeline has no chunk
NoChunk ==
    /\ chunk = [content |-> <<>>, source_mapping |-> <<>>]
    /\ query = [start |-> 0, end |-> 0]
    /\ overflow_checks = TRUE
    /\ spans = [panic |-> FALSE, map |-> <<>>]

\* the pipeline and the chunk use no search directories
NoDirs ==
    /\ target_os = "linux"
    /\ base_dirs = [some |-> FALSE, home_dir |-> <<>>]
    /\ once = "incomplete"
    /\ OS_SPECIFIC_LOOKUP_DIRS = <<>>
    /\ initialized = 0
    /\ threads = <<>>

Init ==
    /\ pc = "source"
    /\ source \in Sources
    /\ with_location = <<>>
    /\ with_line_column = <<>>
    /\ with_type = <<>>
    /\ retained = <<>>
    /\ literal_sets = <<>>
    /\ NoChunk
    /\ NoDirs
    /\ converted = <<>>

SourceToTokensWithLocation ==
    /\ pc = "source"
    /\ with_location' = source_to_tokens_with_location(source)
    /\ pc' = "located"
    /\ UNCHANGED <<source, with_line_column, with_type, retained, literal_sets>>
    /\ UNCHANGED chunk_vars
    /\ UNCHANGED dirs_vars
    /\ UNCHANGED convert_vars

TokensWithLineAndColumn ==
    /\ pc = "located"
    /\ with_line_column' =
          tokens_with_location_to_tokens_with_line_and_column(source, with_location)
    /\ pc' = "positioned"
    /\ UNCHANGED <<source, with_location, with_type, retained, literal_sets>>
    /\ UNCHANGED chunk_vars
    /\ UNCHANGED dirs_vars
    /\ UNCHANGED convert_vars

TokensWithType ==
    /\ pc = "positioned"
    /\ with_type' = token_with_line_column_to_token_with_type(with_line_column)
    /\ pc' = "typed"
    /\ UNCHANGED <<source, with_location, with_line_column, retained, literal_sets>>
    /\ UNCHANGED chunk_vars
    /\ UNCHANGED dirs_vars
    /\ UNCHANGED convert_vars

RetainOnlyDeveloperComments ==
    /\ pc = "typed"
    /\ retained' = retain_only_developer_comments(with_type)
    /\ pc' = "retained"
    /\ UNCHANGED <<source, with_location, with_line_column, with_type, literal_sets>>
    /\ UNCHANGED chunk_vars
    /\ UNCHANGED dirs_vars
    /\ UNCHANGED convert_vars

ExtractDeveloperComments ==
    /\ pc = "retained"
    /\ literal_sets' = CollectLiteralSets(retained)
    /\ pc' = "extracted"
    /\ UNCHANGED <<source, with_location, with_line_column, with_type, retained>>
    /\ UNCHANGED chunk_vars
    /\ UNCHANGED dirs_vars
    /\ UNCHANGED convert_vars

\* literal_sets_from_line_comments called with the retained tokens themselves,
\* block comments included, as the tests of developer.rs call it
LiteralSetsFromLineComments ==
    /\ pc \in {"tokens", "retained"}
    /\ literal_sets' = literal_sets_from_line_comments(retained)
    /\ pc' = "grouped"
    /\ UNCHANGED <<source, with_location, with_line_column, with_type, retained>>
    /\ UNCHANGED chunk_vars
    /\ UNCHANGED dirs_vars
    /\ UNCHANGED convert_vars

Next ==
    \/ SourceToTokensWithLocation
    \/ TokensWithLineAndColumn
    \/ TokensWithType
    \/ RetainOnlyDeveloperComments
    \/ ExtractDeveloperComments
    \/ LiteralSetsFromLineComments

Spec == Init /\ [][Next]_vars

-----------------------------------------------------------------------------
(* Claims about the pipeline, checked under Spec *)

\* number of scalars of str that lie before byte offset b
ScalarsBefore(str, b) ==
    Cardinality({i \in 1..Len(str) : ByteOffsetOf(str, i) < b})

\* rustc's doc comments: ///x (not ////), //!, /**x (not /**/ or /***), /*!
IsDocComment(content) ==
    \/ StartsWith(content, <<"/", "/", "/">>) /\ ~StartsWith(content, <<"/", "/", "/", "/">>)
    \/ StartsWith(content, <<"/", "/", "!">>)
    \/ /\ StartsWith(content, <<"/", "*", "*">>)
       /\ content # <<"/", "*", "*", "/">>
       /\ ~StartsWith(content, <<"/", "*", "*", "*">>)
    \/ StartsWith(content, <<"/", "*", "!">>)

\* C3: after classification and retention no retained token is a doc comment
\* (///, //!, /** */, /*! */) and none has kind Other
C3_RetentionDropsDocComments ==
    pc \in {"retained", "extracted"} =>
        \A i \in 1..Len(retained) :
            /\ retained[i].kind # "Other"
            /\ ~IsDocComment(retained[i].content)

\* C5: the tokens tile the source: the first location is 0, every next
\* location is the previous one plus the previous token's byte length, and
\* the contents concatenated in order are the source
C5_TokensTileSource ==
    pc # "source" =>
        /\ with_location # <<>> => with_location[1].location = 0
        /\ \A i \in 1..(Len(with_location) - 1) :
              with_location[i + 1].location =
                  with_location[i].location + ByteLen(with_location[i].content)
        /\ Concat([i \in 1..Len(with_location) |-> with_location[i].content]) = source
        /\ source # <<>> => with_location # <<>>

\* a token made of a three-byte scalar is followed by a token three bytes on
C5_Witness ==
    /\ pc = "located"
    /\ \E i \in 1..(Len(with_location) - 1) :
          /\ with_location[i].content = <<"Z">>
          /\ with_location[i + 1].location = with_location[i].location + 3

\* C6: for a token at byte offset b, line = 1 + number of newlines before b
\* and column = number of scalars between the last newline before b (or the
\* start of the source) and b; the first token is at line 1, column 0
C6_LineAndColumn ==
    pc \notin {"source", "located"} =>
        /\ Len(with_line_column) = Len(with_location)
        /\ \A i \in 1..Len(with_line_column) :
              LET n == ScalarsBefore(source, with_location[i].location)
                  nls == {j \in 1..n : source[j] = NL}
                  lastnl == IF nls = {} THEN 0
                            ELSE CHOOSE j \in nls : \A k \in nls : k <= j
              IN  /\ with_line_column[i].content = with_location[i].content
                  /\ with_line_column[i].line = 1 + Cardinality(nls)
                  /\ with_line_column[i].column = n - lastnl
        /\ with_line_column # <<>> =>
              with_line_column[1].line = 1 /\ with_line_column[1].column = 0

\* a token on the second line, preceded on its line by a three-byte scalar:
\* its column is 2 less than its byte distance from the line start
C6_Witness ==
    /\ pc = "positioned"
    /\ \E i \in 2..Len(with_line_column) :
          /\ with_line_column[i].line = 2
          /\ with_location[i - 1].content = <<"Z">>
          /\ with_line_column[i].column = 1
          /\ with_location[i].location - with_location[i - 1].location = 3

\* every literal of every returned set, in order
AllLiterals(sets) == Concat(sets)

\* C7: every multi-line block comment token with N lines yields one literal
\* set of N literals, the i-th on line token.line + i; none is dropped
C7_MultiLineBlockCommentKept ==
    pc = "extracted" =>
        \A i \in 1..Len(retained) :
            LET token == retained[i]
                lines == split_newline(token.content)
            IN  (token.kind = "BlockComment" /\ Len(lines) >= 2) =>
                    \E k \in 1..Len(literal_sets) :
                        /\ Len(literal_sets[k]) = Len(lines)
                        /\ \A j \in 1..Len(lines) :
                              /\ literal_sets[k][j].raw = lines[j]
                              /\ literal_sets[k][j].line = token.line + j - 1
                        /\ literal_sets[k][1].column = token.column

PositionLe(a, b) == a.line < b.line \/ (a.line = b.line /\ a.column <= b.column)

\* C8: every literal of the result has pre + post <= scalar length of raw,
\* span.start = column + pre, span.end = column + length - post - 1 and
\* span.start <= span.end
C8_LiteralSpanOrdered ==
    pc = "extracted" =>
        \A k \in 1..Len(literal_sets) : \A j \in 1..Len(literal_sets[k]) :
            LET l == literal_sets[k][j]
            IN  /\ l.pre + l.post <= CharsCount(l.raw)
                /\ l.span.start.column = l.column + l.pre
                /\ l.span.end.column = l.column + CharsCount(l.raw) - l.post - 1
                /\ PositionLe(l.span.start, l.span.end)

\* a set made from line comments starts with a literal whose raw text is //
FromLineComment(set) == StartsWith(set[1].raw, LINE_COMMENT_PREFIX)

\* C9: in the result every set made from line comments comes before every set
\* made from a block comment, each kind is in source order, and there is one
\* set per block comment token that converts
C9_LineSetsBeforeBlockSets ==
    pc = "extracted" =>
        /\ \A i, j \in 1..Len(literal_sets) :
              i < j =>
                /\ ~(~FromLineComment(literal_sets[i]) /\ FromLineComment(literal_sets[j]))
                /\ FromLineComment(literal_sets[i]) = FromLineComment(literal_sets[j])
                      => literal_sets[i][1].line <= literal_sets[j][1].line
        /\ Cardinality({k \in 1..Len(literal_sets) : ~FromLineComment(literal_sets[k])})
              = Cardinality({i \in 1..Len(retained) :
                                literal_set_from_block_comment(retained[i]).ok})
        /\ (\E i \in 1..Len(retained) : retained[i].kind = "LineComment")
              => (literal_sets # <<>> /\ FromLineComment(literal_sets[1]))

\* a block comment on line 1, a line comment on line 2: the line comment's
\* set is first in the result
C9_Witness ==
    /\ pc = "extracted"
    /\ Len(literal_sets) = 2
    /\ FromLineComment(literal_sets[1])
    /\ ~FromLineComment(literal_sets[2])
    /\ literal_sets[2][1].line < literal_sets[1][1].line

-----------------------------------------------------------------------------
(* The classifier on its own: TokenWithType::from given any token content, *)
(* as the tests of developer.rs call it (line 0, column 0)                 *)

TokenAlphabet == {"/", "*", "!", "|", "[", "a", NL}

TokenContents == UNION {[1..n -> TokenAlphabet] : n \in 0..MaxTokenLen}

InitClassify ==
    /\ pc = "positioned"
    /\ source = <<>>
    /\ with_location = <<>>
    /\ \E c \in TokenContents :
          with_line_column = <<[content |-> c, line |-> 0, column |-> 0]>>
    /\ with_type = <<>>
    /\ retained = <<>>
    /\ literal_sets = <<>>
    /\ NoChunk
    /\ NoDirs
    /\ converted = <<>>

\* both converters called on every classified token, as the tests at lines
\* 730-762 of developer.rs do
ConvertTokens ==
    /\ pc = "typed"
    /\ converted' = [i \in 1..Len(with_type) |->
                        [set |-> literal_set_from_block_comment(with_type[i]),
                         literal |-> literal_from_line_comment(with_type[i])]]
    /\ pc' = "converted"
    /\ UNCHANGED pipeline_vars
    /\ UNCHANGED chunk_vars
    /\ UNCHANGED dirs_vars

NextClassify ==
    \/ TokensWithType
    \/ RetainOnlyDeveloperComments
    \/ ExtractDeveloperComments
    \/ ConvertTokens

SpecClassify == InitClassify /\ [][NextClassify]_vars

\* the line comment of the specification: //, one scalar that is neither /
\* nor !, then scalars other than newline
IsSpecLineComment(content) ==
    /\ Len(content) >= 3
    /\ StartsWith(content, <<"/", "/">>)
    /\ content[3] \notin {"/", "!"}
    /\ \A i \in 4..Len(content) : content[i] # NL

\* C4: a token is classified LineComment exactly when it is // followed by
\* a scalar other than / and !, then scalars other than newline; a token
\* that is neither that nor a block comment is classified Other
C4_LineCommentClassification ==
    pc \in {"typed", "retained", "extracted"} =>
        \A i \in 1..Len(with_type) :
            LET t == with_type[i]
            IN  /\ t.kind = "LineComment" <=> IsSpecLineComment(t.content)
                /\ t.kind = "Other" <=>
                      (~IsSpecLineComment(t.content) /\ ~BLOCK_COMMENT_is_match(t.content))

-----------------------------------------------------------------------------
(* literal_sets_from_line_comments on its own, given retained tokens in    *)
(* source order                                                            *)

LineTokenContents ==
    { <<"/", "/", "a">>, <<"/", "/", "Z">>, <<"/", "*", "a", "*", "/">> }

LineTokenColumns == {0, 1}

\* what one source line holds: nothing, or one comment token
LineChoices ==
    {<<>>} \cup {<<[content |-> c, column |-> col]>> :
                    c \in LineTokenContents, col \in LineTokenColumns}

RECURSIVE TokensOfLines(_, _)
\* the classified tokens of the lines from `line` on
TokensOfLines(choice, line) ==
    IF line > MaxLine THEN <<>>
    ELSE (IF choice[line] = <<>> THEN <<>>
          ELSE <<TokenWithType_from([content |-> choice[line][1].content,
                                     line |-> line,
                                     column |-> choice[line][1].column])>>)
         \o TokensOfLines(choice, line + 1)

InitLines ==
    /\ pc = "tokens"
    /\ source = <<>>
    /\ with_location = <<>>
    /\ with_line_column = <<>>
    /\ with_type = <<>>
    /\ \E choice \in [1..MaxLine -> LineChoices] :
          retained = retain_only_developer_comments(TokensOfLines(choice, 1))
    /\ literal_sets = <<>>
    /\ NoChunk
    /\ NoDirs
    /\ converted = <<>>

NextLines == LiteralSetsFromLineComments

SpecLines == InitLines /\ [][NextLines]_vars

\* the literals of the line comment tokens, in the order of the tokens
LineLiterals(tokens) ==
    LET lt == SelectSeq(tokens, IsLineComment)
    IN  [i \in 1..Len(lt) |-> literal_from_line_comment(lt[i]).value]

\* number of maximal runs of literals on consecutive lines
Runs(literals) ==
    Cardinality({i \in 1..Len(literals) :
                    i = 1 \/ literals[i].line # literals[i - 1].line + 1})

\* C1: grouping loses nothing: the literals of the returned sets, in order,
\* are the literals of the line comment tokens, every set holds literals on
\* consecutive lines, and there are as many sets as maximal runs
C1_GroupingLosesNothing ==
    pc = "grouped" =>
        /\ AllLiterals(literal_sets) = LineLiterals(retained)
        /\ Len(literal_sets) = Runs(LineLiterals(retained))
        /\ \A k \in 1..Len(literal_sets) : \A j \in 2..Len(literal_sets[k]) :
              literal_sets[k][j].line = literal_sets[k][j - 1].line + 1

-----------------------------------------------------------------------------
(* chunk.rs: CheckableChunk::find_spans                                    *)
(*                                                                         *)
(* A Range is [start, end) in bytes of the content.  A column is a usize;  *)
(* a column that wrapped below zero in a build without overflow checks is  *)
(* kept as the negative number v that stands for 2^64 + v, and columns are *)
(* compared as unsigned numbers.                                           *)

\* Range::contains
Contains(range, x) == range.start <= x /\ x < range.end

\* a <= b on usize
UnsignedLe(a, b) == IF (a < 0) = (b < 0) THEN a <= b ELSE b < 0

\* the branches of the closure given to filter_map: the fragment emitted for
\* one (range, span) entry, if any, and the value `active` has afterwards
Fragment(range, active, start, end) ==
    IF Contains(range, start)
    THEN [active |-> TRUE, some |-> TRUE,
          range |-> IF end > 0 /\ Contains(range, end - 1)
                    THEN [start |-> start, end |-> end]
                    ELSE [start |-> start, end |-> range.end]]
    ELSE IF active
    THEN [active |-> active, some |-> TRUE, range |-> range]
    ELSE IF Contains(range, end)
    THEN [active |-> FALSE, some |-> TRUE,
          range |-> [start |-> range.start, end |-> end]]
    ELSE [active |-> active, some |-> FALSE, range |-> range]

\* the closure given to map: the span of a fragment, or a panic
AdjustSpan(range, span, fract_range, checks) ==
    IF span.start.line # span.end.line THEN [panic |-> TRUE]
    ELSE LET start_column == span.start.column + (fract_range.start - range.start)
             end_column == span.end.column - (range.end - fract_range.end)
         IN  IF checks /\ end_column < 0 THEN [panic |-> TRUE]
             ELSE IF ~UnsignedLe(start_column, end_column) THEN [panic |-> TRUE]
             ELSE [panic |-> FALSE,
                   span |-> [start |-> [line |-> span.start.line, column |-> start_column],
                             end |-> [line |-> span.end.line, column |-> end_column]]]

\* IndexMap::insert: a key already present keeps its place and gets the new
\* value
IndexMapInsert(map, key, value) ==
    IF \E i \in 1..Len(map) : map[i].range = key
    THEN [i \in 1..Len(map) |->
            IF map[i].range = key THEN [range |-> key, span |-> value] ELSE map[i]]
    ELSE Append(map, [range |-> key, span |-> value])

RECURSIVE FindSpansFrom(_, _, _, _, _, _)
\* the iteration over source_mapping from entry i on; out is what has been
\* collected so far
FindSpansFrom(mapping, i, active, range, checks, out) ==
    IF i > Len(mapping) THEN [panic |-> FALSE, map |-> out]
    ELSE LET f == Fragment(mapping[i].range, active, range.start, range.end)
         IN  IF ~f.some
             THEN FindSpansFrom(mapping, i + 1, f.active, range, checks, out)
             ELSE LET a == AdjustSpan(mapping[i].range, mapping[i].span, f.range, checks)
                  IN  IF a.panic THEN [panic |-> TRUE, map |-> <<>>]
                      ELSE FindSpansFrom(mapping, i + 1, f.active, range, checks,
                                         IndexMapInsert(out, f.range, a.span))

find_spans(self, range, checks) ==
    FindSpansFrom(self.source_mapping, 1, FALSE, range, checks, <<>>)

-----------------------------------------------------------------------------
(* Chunks given to find_spans *)

ContentAlphabet == {"a", "Z"}

Contents == UNION {[1..n -> ContentAlphabet] : n \in 0..MaxContent}

\* first columns of the spans of the model
StartColumns == {0, 2}

\* the non-empty ranges of content that lie on scalar boundaries and start
\* at byte lo or later, each with the widths in columns its span may have:
\* the scalars it covers, or the bytes
EntriesFrom(content, lo) ==
    UNION {{[range |-> [start |-> ByteOffsetOf(content, p[1]),
                        end |-> ByteOffsetOf(content, p[2])],
             column |-> c,
             width |-> w] :
                c \in StartColumns,
                w \in {ByteOffsetOf(content, p[2]) - ByteOffsetOf(content, p[1]),
                       p[2] - p[1]}} :
           p \in {q \in (1..(Len(content) + 1)) \X (1..(Len(content) + 1)) :
                     q[1] < q[2] /\ lo <= ByteOffsetOf(content, q[1])}}

RECURSIVE MappingsFrom(_, _, _, _)
\* the source mappings of at most n entries, ascending and non-overlapping,
\* from byte lo on; the entries are on the lines line, line + 1, ...
MappingsFrom(content, lo, n, line) ==
    IF n = 0 THEN {<<>>}
    ELSE {<<>>} \cup
         UNION {{<<[range |-> e.range,
                    span |-> [start |-> [line |-> line, column |-> e.column],
                              end |-> [line |-> line,
                                       column |-> e.column + e.width - 1]]]>> \o rest :
                    rest \in MappingsFrom(content, e.range.end, n - 1, line + 1)} :
                e \in EntriesFrom(content, lo)}

\* scenario S5 of the specification: {0..5 -> L1C2-L1C6, 6..11 -> L2C0-L2C4}
S5Chunk ==
    [content |-> <<"a", "a", "a", "a", "a", NL, "a", "a", "a", "a", "a">>,
     source_mapping |->
        <<[range |-> [start |-> 0, end |-> 5],
           span |-> [start |-> [line |-> 1, column |-> 2],
                     end |-> [line |-> 1, column |-> 6]]],
          [range |-> [start |-> 6, end |-> 11],
           span |-> [start |-> [line |-> 2, column |-> 0],
                     end |-> [line |-> 2, column |-> 4]]]>>]

Chunks ==
    {S5Chunk} \cup
    UNION {{[content |-> c, source_mapping |-> m] : m \in MappingsFrom(c, 0, MaxRanges, 1)} :
           c \in Contents}

InitFind ==
    /\ pc = "chunk"
    /\ source = <<>>
    /\ with_location = <<>>
    /\ with_line_column = <<>>
    /\ with_type = <<>>
    /\ retained = <<>>
    /\ literal_sets = <<>>
    /\ chunk \in Chunks
    /\ \E qs, qe \in 0..ByteLen(chunk.content) :
          qs <= qe /\ query = [start |-> qs, end |-> qe]
    /\ overflow_checks \in BOOLEAN
    /\ spans = [panic |-> FALSE, map |-> <<>>]
    /\ NoDirs
    /\ converted = <<>>

FindSpans ==
    /\ pc = "chunk"
    /\ spans' = find_spans(chunk, query, overflow_checks)
    /\ pc' = "found"
    /\ UNCHANGED <<chunk, query, overflow_checks>>
    /\ UNCHANGED pipeline_vars
    /\ UNCHANGED dirs_vars
    /\ UNCHANGED convert_vars

NextFind == FindSpans

SpecFind == InitFind /\ [][NextFind]_vars

-----------------------------------------------------------------------------
(* Claims about find_spans, checked under SpecFind *)

RangeOf(a, b) == [start |-> a, end |-> b]

\* the data model of section 3: the columns of each span are as many as the
\* bytes of its range
SpanWidthsMatch(c) ==
    \A i \in 1..Len(c.source_mapping) :
        LET e == c.source_mapping[i]
        IN  e.span.end.column - e.span.start.column + 1 = e.range.end - e.range.start

\* C2: for a query that starts inside one mapping range and ends inside a
\* later range R, the entry emitted for R is R.start..qe with the end column
\* reduced by R.end - qe, and nothing is emitted for the ranges after R
C2_LastEntryTrimmed ==
    (pc = "found" /\ SpanWidthsMatch(chunk)) =>
        \A i, j \in 1..Len(chunk.source_mapping) :
            LET first == chunk.source_mapping[i]
                R == chunk.source_mapping[j]
            IN  (/\ i < j
                 /\ Contains(first.range, query.start)
                 /\ R.range.start < query.end
                 /\ query.end < R.range.end) =>
                    /\ ~spans.panic
                    /\ \E k \in 1..Len(spans.map) :
                          /\ spans.map[k].range = RangeOf(R.range.start, query.end)
                          /\ spans.map[k].span.start = R.span.start
                          /\ spans.map[k].span.end.line = R.span.end.line
                          /\ spans.map[k].span.end.column =
                                R.span.end.column - (R.range.end - query.end)
                    /\ \A k \in 1..Len(spans.map) :
                          spans.map[k].range.start < R.range.end

\* C10: find_spans(0..content.len()) returns the entries of source_mapping:
\* the same ranges in the same order, each with its span unchanged
C10_FullRangeReturnsMapping ==
    (pc = "found" /\ query = RangeOf(0, ByteLen(chunk.content))) =>
        /\ ~spans.panic
        /\ spans.map = chunk.source_mapping

\* byte offset b of str is the start of a scalar, or the end of str
OnScalarBoundary(str, b) ==
    \E k \in 1..(Len(str) + 1) : ByteOffsetOf(str, k) = b

\* C13: for a single-line entry whose range has more bytes than its span has
\* columns (one column per scalar of multibyte content) and a non-empty query
\* inside the range on scalar boundaries, find_spans returns the query with
\* the start column moved right by the scalars of content[range.start..qs]
\* and the end column moved left by the scalars of content[qe..range.end]
C13_ColumnsCountScalars ==
    (pc = "found") =>
        \A i \in 1..Len(chunk.source_mapping) :
            LET e == chunk.source_mapping[i]
                scalars(a, b) == ScalarsBefore(chunk.content, b)
                                    - ScalarsBefore(chunk.content, a)
            IN  (/\ e.span.end.column - e.span.start.column + 1
                        = scalars(e.range.start, e.range.end)
                 /\ e.range.end - e.range.start > scalars(e.range.start, e.range.end)
                 /\ e.range.start <= query.start
                 /\ query.start < query.end
                 /\ query.end <= e.range.end
                 /\ OnScalarBoundary(chunk.content, query.start)
                 /\ OnScalarBoundary(chunk.content, query.end)) =>
                    /\ ~spans.panic
                    /\ \E k \in 1..Len(spans.map) :
                          /\ spans.map[k].range = query
                          /\ spans.map[k].span.start.line = e.span.start.line
                          /\ spans.map[k].span.end.line = e.span.end.line
                          /\ spans.map[k].span.start.column =
                                e.span.start.column + scalars(e.range.start, query.start)
                          /\ spans.map[k].span.end.column =
                                e.span.end.column - scalars(query.end, e.range.end)
                          /\ spans.map[k].span.start.column
                                <= spans.map[k].span.end.column

\* C17: on a chunk that keeps the data model (ranges ascending and disjoint,
\* spans on one line and as wide as their ranges) find_spans completes for
\* every query 0 <= qs <= qe <= len: no assertion fails, no column underflows
C17_NoPanicOnValidChunk ==
    (pc = "found" /\ SpanWidthsMatch(chunk)) => ~spans.panic

\* C18: every fragment find_spans returns lies inside the query and inside
\* one entry of the mapping, and a query that lies wholly inside the first
\* range returns exactly one entry
C18_FragmentsInsideQuery ==
    (pc = "found" /\ SpanWidthsMatch(chunk) /\ ~spans.panic) =>
        /\ \A k \in 1..Len(spans.map) :
              \E i \in 1..Len(chunk.source_mapping) :
                  LET R == chunk.source_mapping[i].range
                      frag == spans.map[k].range
                  IN  /\ query.start <= frag.start
                      /\ R.start <= frag.start
                      /\ frag.end <= query.end
                      /\ frag.end <= R.end
        /\ (/\ chunk.source_mapping # <<>>
            /\ chunk.source_mapping[1].range.start <= query.start
            /\ query.start < query.end
            /\ query.end <= chunk.source_mapping[1].range.end) =>
                Len(spans.map) = 1

\* C19: when no range of the mapping contains the start of the query,
\* find_spans returns the empty map, also when the end of the query lies
\* inside a range
C19_NothingWithoutStart ==
    (/\ pc = "found"
     /\ \A i \in 1..Len(chunk.source_mapping) :
            ~Contains(chunk.source_mapping[i].range, query.start)) =>
        /\ ~spans.panic
        /\ spans.map = <<>>

-----------------------------------------------------------------------------
(* Claims about literal construction, checked under Spec *)

HasNewline(content) == \E i \in 1..Len(content) : content[i] = NL

\* C14: a block comment token on one line at (line, column) with len scalars
\* yields a set of one literal with pre = 2, post = 2, len - 4 scalars of
\* content and the span (line, column + 2)..(line, column + len - 3); a
\* single line comment token yields one literal with pre = 2, post = 0 and
\* the span (line, column + 2)..(line, column + len - 1)
C14_SingleLineLiterals ==
    pc = "extracted" =>
        /\ \A i \in 1..Len(retained) :
              LET t == retained[i]
                  len == CharsCount(t.content)
              IN  (t.kind = "BlockComment" /\ ~HasNewline(t.content)) =>
                      \E k \in 1..Len(literal_sets) :
                          /\ Len(literal_sets[k]) = 1
                          /\ literal_sets[k][1].raw = t.content
                          /\ literal_sets[k][1].pre = 2
                          /\ literal_sets[k][1].post = 2
                          /\ CharsCount(literal_sets[k][1].raw)
                                - literal_sets[k][1].pre - literal_sets[k][1].post = len - 4
                          /\ literal_sets[k][1].span =
                                [start |-> [line |-> t.line, column |-> t.column + 2],
                                 end |-> [line |-> t.line, column |-> t.column + len - 3]]
        /\ \A i \in 1..Len(retained) :
              LET t == retained[i]
                  len == CharsCount(t.content)
              IN  (/\ t.kind = "LineComment"
                   /\ \A j \in 1..Len(retained) :
                         retained[j].kind = "LineComment" => j = i) =>
                      \E k \in 1..Len(literal_sets) :
                          /\ Len(literal_sets[k]) = 1
                          /\ literal_sets[k][1].raw = t.content
                          /\ literal_sets[k][1].pre = 2
                          /\ literal_sets[k][1].post = 0
                          /\ literal_sets[k][1].span =
                                [start |-> [line |-> t.line, column |-> t.column + 2],
                                 end |-> [line |-> t.line, column |-> t.column + len - 1]]

\* a multibyte scalar, then a block comment on one line, then one line
\* comment: both comments converted
C14_Witness ==
    /\ pc = "extracted"
    /\ Len(literal_sets) = 2
    /\ ByteLen(source) > CharsCount(source)
    /\ \E i, j \in 1..Len(retained) :
          /\ retained[i].kind = "BlockComment"
          /\ ~HasNewline(retained[i].content)
          /\ retained[i].column > 0
          /\ retained[j].kind = "LineComment"
          /\ retained[j].column > retained[i].column

\* C16: in the set of a block comment of three lines or more every middle
\* line has pre = 0 and post = 0 whatever its text, and the final line has
\* post = 2 exactly when it ends with */
C16_MiddleLinesUntrimmed ==
    pc = "extracted" =>
        \A k \in 1..Len(literal_sets) :
            LET set == literal_sets[k]
            IN  ~FromLineComment(set) =>
                    /\ \A j \in 2..(Len(set) - 1) :
                          set[j].pre = 0 /\ set[j].post = 0
                    /\ Len(set) >= 2 =>
                          /\ set[Len(set)].pre = 0
                          /\ set[Len(set)].post =
                                (IF EndsWith(set[Len(set)].raw, BLOCK_COMMENT_POSTFIX)
                                 THEN 2 ELSE 0)

\* seq without its i-th element
Without(seq, i) == SubSeq(seq, 1, i - 1) \o SubSeq(seq, i + 1, Len(seq))

\* C20: a token that gives no literal changes nothing else: the result of
\* literal_sets_from_line_comments is what it is without any token that is
\* not a line comment or whose literal cannot be made, and the result of
\* extract_developer_comments is what it is without any block comment token
\* whose conversion fails
C20_FailureDropsOnlyToken ==
    /\ pc = "grouped" =>
          \A i \in 1..Len(retained) :
              (\/ retained[i].kind # "LineComment"
               \/ ~literal_from_line_comment(retained[i]).ok) =>
                  literal_sets = literal_sets_from_line_comments(Without(retained, i))
    /\ pc = "extracted" =>
          \A i \in 1..Len(retained) :
              (/\ retained[i].kind = "BlockComment"
               /\ ~literal_set_from_block_comment(retained[i]).ok) =>
                  literal_sets = CollectLiteralSets(Without(retained, i))

\* a block comment that does not convert, then one that does: the result
\* holds the set of the second
C20_Witness ==
    /\ pc = "extracted"
    /\ \E i, j \in 1..Len(retained) :
          /\ i < j
          /\ retained[i].kind = "BlockComment"
          /\ ~literal_set_from_block_comment(retained[i]).ok
          /\ literal_set_from_block_comment(retained[j]).ok
          /\ \E k \in 1..Len(literal_sets) :
                literal_sets[k] = literal_set_from_block_comment(retained[j]).value

\* a block comment and a line comment given to
\* literal_sets_from_line_comments: the set of the line comment alone
C20_WitnessGrouped ==
    /\ pc = "grouped"
    /\ Len(retained) = 2
    /\ retained[1].kind = "BlockComment"
    /\ retained[2].kind = "LineComment"
    /\ Len(literal_sets) = 1
    /\ Len(literal_sets[1]) = 1

-----------------------------------------------------------------------------
(* search_dirs.rs                                                          *)
(*                                                                         *)
(* A PathBuf holds the string it was made from.  The string is kept here   *)
(* cut into its separators "/" and the names between them, so that         *)
(* "/usr/share/" is <<"/", "usr", "/", "share", "/">>.                     *)

\* Path::is_absolute on Unix: the path starts at the root
is_absolute(path) == path # <<>> /\ Head(path) = "/"

\* Path::join, that is PathBuf::push on a copy: an absolute path replaces
\* the base, any other path is added after a separator
PathBuf_join(base, path) ==
    IF is_absolute(path) THEN path
    ELSE IF base = <<>> \/ base[Len(base)] = "/" THEN base \o path
    ELSE base \o <<"/">> \o path

IsName(c) == c # "/"

\* Path::components, by which two paths are compared: whether the path
\* starts at the root, and its names; a trailing separator does not count
Components(path) ==
    [root |-> is_absolute(path), names |-> SelectSeq(path, IsName)]

LibrarySpelling == <<"/", "Library", "/", "Spelling", "/">>

UsrShareMyspell == <<"/", "usr", "/", "share", "/", "myspell", "/">>

UsrShareHunspell == <<"/", "usr", "/", "share", "/", "hunspell", "/">>

UsrShareMyspellDicts ==
    <<"/", "usr", "/", "share", "/", "myspell", "/", "dicts", "/">>

\* the initializer of the static OS_SPECIFIC_LOOKUP_DIRS
LookupDirsInitializer(os, base) ==
    IF os = "macos"
    THEN IF base.some
         THEN <<PathBuf_join(base.home_dir, LibrarySpelling), LibrarySpelling>>
         ELSE <<>>
    ELSE IF os = "linux"
    THEN <<UsrShareMyspell, UsrShareHunspell, UsrShareMyspellDicts>>
    ELSE <<>>

RECURSIVE VisitSeqLoop(_, _)
\* "while let Some(item) = seq.next_element()? { v.push(item) }"
VisitSeqLoop(v, seq) ==
    IF seq = <<>> THEN v ELSE VisitSeqLoop(Append(v, Head(seq)), Tail(seq))

\* SearchDirVisitor::visit_seq
visit_seq(seq) == VisitSeqLoop(<<>>, seq)

\* a visitor that puts the defaults of the OS before the given paths
visit_newtype_struct_DefaultsFirst(elements, os_dirs) ==
    VisitSeqLoop(os_dirs, elements)

\* SearchDirVisitor::visit_newtype_struct, given the elements of the
\* sequence being deserialized and what os_specific_search_dirs() returned:
\* Vec::extend pushes the defaults after the elements
visit_newtype_struct(elements, os_dirs) ==
    VisitSeqLoop(visit_seq(elements), os_dirs)

\* SearchDirs::default, given what os_specific_search_dirs() returned
SearchDirs_default(os_dirs) == os_dirs

\* Serialize for PathBuf: the string the path holds (the paths of the model
\* are UTF-8)
to_str(path) == path

\* PathBuf::from(String), by which Deserialize for PathBuf makes a path
PathBuf_from(str) == str

\* a serializer that writes no element
serialize_Nothing(dirs) == <<>>

\* Serialize for SearchDirs: serialize_newtype_struct("SearchDirs", &self.0)
\* writes the sequence of all paths of the value
serialize(dirs) == [i \in 1..Len(dirs) |-> to_str(dirs[i])]

\* the elements the deserializer hands to visit_seq for a serialized value
deserialize_elements(wire) == [i \in 1..Len(wire) |-> PathBuf_from(wire[i])]

\* Once::call_once lets a thread run the initializer only while no thread
\* has started it
CanBeginInit_Racy(state) == state \in {"incomplete", "running"}

CanBeginInit(state) == state = "incomplete"

-----------------------------------------------------------------------------
(* Threads that make SearchDirs values: each call goes through             *)
(* os_specific_search_dirs(), the first to come runs the initializer       *)

Threads == 1..NumThreads

CustomDict == <<"/", "custom", "/", "dict">>

\* the sequences of paths given to the deserializer
UserPaths ==
    { <<>>, <<CustomDict>>, <<CustomDict, UsrShareHunspell, CustomDict>> }

HomeDirs == { <<"/">>, <<"/", "Users", "/", "u">> }

\* nothing serialized
NoWire == [some |-> FALSE, value |-> <<>>]

IdleThread ==
    [pc |-> "idle", op |-> "none", input |-> <<>>, seen |-> <<>>, dirs |-> <<>>,
     calls |-> 0, wire |-> NoWire, trips |-> 0, origin |-> <<>>]

InitDirs ==
    /\ pc = "dirs"
    /\ source = <<>>
    /\ with_location = <<>>
    /\ with_line_column = <<>>
    /\ with_type = <<>>
    /\ retained = <<>>
    /\ literal_sets = <<>>
    /\ NoChunk
    /\ target_os \in {"macos", "linux", "other"}
    /\ base_dirs \in {[some |-> FALSE, home_dir |-> <<>>]}
                        \cup {[some |-> TRUE, home_dir |-> h] : h \in HomeDirs}
    /\ once = "incomplete"
    /\ OS_SPECIFIC_LOOKUP_DIRS = <<>>
    /\ initialized = 0
    /\ threads = [t \in Threads |-> IdleThread]
    /\ converted = <<>>

\* a thread without a SearchDirs value enters SearchDirs::default()
CallDefault(t) ==
    /\ threads[t].pc = "idle"
    /\ threads[t].calls = 0
    /\ threads' = [threads EXCEPT ![t] =
            [pc |-> "deref", op |-> "default", input |-> <<>>, seen |-> <<>>,
             dirs |-> <<>>, calls |-> @.calls + 1,
             wire |-> NoWire, trips |-> 0, origin |-> <<>>]]
    /\ UNCHANGED <<target_os, base_dirs, once, OS_SPECIFIC_LOOKUP_DIRS, initialized>>
    /\ UNCHANGED <<pc, pipeline_vars, chunk_vars, convert_vars>>

\* a thread without a SearchDirs value enters SearchDirs::deserialize with a
\* sequence of paths
CallDeserialize(t) ==
    /\ threads[t].pc = "idle"
    /\ threads[t].calls = 0
    /\ \E elements \in UserPaths :
          threads' = [threads EXCEPT ![t] =
            [pc |-> "deref", op |-> "deserialize", input |-> elements, seen |-> <<>>,
             dirs |-> <<>>, calls |-> @.calls + 1,
             wire |-> NoWire, trips |-> 0, origin |-> <<>>]]
    /\ UNCHANGED <<target_os, base_dirs, once, OS_SPECIFIC_LOOKUP_DIRS, initialized>>
    /\ UNCHANGED <<pc, pipeline_vars, chunk_vars, convert_vars>>

\* a thread serializes the SearchDirs value it holds; origin is the value the
\* round trips started from
Serialize(t) ==
    /\ threads[t].pc = "idle"
    /\ threads[t].calls > 0
    /\ ~threads[t].wire.some
    /\ threads[t].trips < MaxTrips
    /\ threads' = [threads EXCEPT ![t] =
            [@ EXCEPT !.wire = [some |-> TRUE, value |-> serialize(threads[t].dirs)],
                      !.origin = IF threads[t].trips = 0 THEN threads[t].dirs
                                 ELSE threads[t].origin]]
    /\ UNCHANGED <<target_os, base_dirs, once, OS_SPECIFIC_LOOKUP_DIRS, initialized>>
    /\ UNCHANGED <<pc, pipeline_vars, chunk_vars, convert_vars>>

\* a thread enters SearchDirs::deserialize with what it serialized
CallDeserializeSerialized(t) ==
    /\ threads[t].pc = "idle"
    /\ threads[t].wire.some
    /\ threads' = [threads EXCEPT ![t] =
            [@ EXCEPT !.pc = "deref",
                      !.op = "deserialize",
                      !.input = deserialize_elements(threads[t].wire.value),
                      !.seen = <<>>,
                      !.dirs = <<>>,
                      !.wire = NoWire,
                      !.trips = threads[t].trips + 1]]
    /\ UNCHANGED <<target_os, base_dirs, once, OS_SPECIFIC_LOOKUP_DIRS, initialized>>
    /\ UNCHANGED <<pc, pipeline_vars, chunk_vars, convert_vars>>

\* the thread finds the static not initialized and takes the initialization
LazyBegin(t) ==
    /\ threads[t].pc = "deref"
    /\ CanBeginInit(once)
    /\ once' = "running"
    /\ threads' = [threads EXCEPT ![t].pc = "init"]
    /\ UNCHANGED <<target_os, base_dirs, OS_SPECIFIC_LOOKUP_DIRS, initialized>>
    /\ UNCHANGED <<pc, pipeline_vars, chunk_vars, convert_vars>>

\* the thread runs the initializer and publishes the value
LazyInitialize(t) ==
    /\ threads[t].pc = "init"
    /\ OS_SPECIFIC_LOOKUP_DIRS' = LookupDirsInitializer(target_os, base_dirs)
    /\ initialized' = initialized + 1
    /\ once' = "complete"
    /\ threads' = [threads EXCEPT ![t].pc = "deref"]
    /\ UNCHANGED <<target_os, base_dirs>>
    /\ UNCHANGED <<pc, pipeline_vars, chunk_vars, convert_vars>>

\* os_specific_search_dirs() returns the slice of the initialized static
\* (a thread that finds the initialization running waits for it) and the
\* call completes
OsSpecificSearchDirs(t) ==
    /\ threads[t].pc = "deref"
    /\ once = "complete"
    /\ threads' = [threads EXCEPT ![t] =
            [@ EXCEPT !.pc = "idle",
                      !.seen = OS_SPECIFIC_LOOKUP_DIRS,
                      !.dirs = IF threads[t].op = "default"
                               THEN SearchDirs_default(OS_SPECIFIC_LOOKUP_DIRS)
                               ELSE visit_newtype_struct(threads[t].input,
                                                         OS_SPECIFIC_LOOKUP_DIRS)]]
    /\ UNCHANGED <<target_os, base_dirs, once, OS_SPECIFIC_LOOKUP_DIRS, initialized>>
    /\ UNCHANGED <<pc, pipeline_vars, chunk_vars, convert_vars>>

NextDirs ==
    \/ \E t \in Threads : CallDefault(t)
    \/ \E t \in Threads : CallDeserialize(t)
    \/ \E t \in Threads : Serialize(t)
    \/ \E t \in Threads : CallDeserializeSerialized(t)
    \/ \E t \in Threads : LazyBegin(t)
    \/ \E t \in Threads : LazyInitialize(t)
    \/ \E t \in Threads : OsSpecificSearchDirs(t)

SpecDirs == InitDirs /\ [][NextDirs]_vars

-----------------------------------------------------------------------------
(* Claims about the search directories, checked under SpecDirs *)

\* the thread has completed a call
Returned(t) == threads[t].pc = "idle" /\ threads[t].calls > 0

\* C11: deserializing SearchDirs from the paths P yields P followed by the
\* defaults of the OS, the order of P and its duplicates kept; on Linux
\* ["/custom/dict"] yields ["/custom/dict", "/usr/share/myspell/",
\* "/usr/share/hunspell/", "/usr/share/myspell/dicts/"], and on an OS
\* without defaults the result is P
C11_DeserializeAppendsDefaults ==
    \A t \in Threads :
        (Returned(t) /\ threads[t].op = "deserialize") =>
            LET P == threads[t].input
                d == threads[t].dirs
                D == OS_SPECIFIC_LOOKUP_DIRS
            IN  /\ Len(d) = Len(P) + Len(D)
                /\ \A i \in 1..Len(P) : d[i] = P[i]
                /\ \A j \in 1..Len(D) : d[Len(P) + j] = D[j]
                /\ (target_os = "linux" /\ P = <<CustomDict>>) =>
                      d = <<CustomDict, UsrShareMyspell, UsrShareHunspell,
                            UsrShareMyspellDicts>>
                /\ target_os = "other" => d = P

\* on Linux, paths with a duplicate and with one of the defaults among them
\* have been deserialized
C11_Witness ==
    \E t \in Threads :
        /\ Returned(t)
        /\ threads[t].op = "deserialize"
        /\ target_os = "linux"
        /\ threads[t].input = <<CustomDict, UsrShareHunspell, CustomDict>>
        /\ Len(threads[t].dirs) = 6

\* C12: on macOS with the home directory H known the defaults are
\* [H/Library/Spelling/, /Library/Spelling/]: the first lies under the home
\* directory and differs from the second whenever H is not the root
C12_MacDefaultsUnderHome ==
    (once = "complete" /\ target_os = "macos" /\ base_dirs.some) =>
        LET H == Components(base_dirs.home_dir)
            D == OS_SPECIFIC_LOOKUP_DIRS
        IN  /\ Len(D) = 2
            /\ Components(D[1]) =
                  [root |-> TRUE, names |-> H.names \o <<"Library", "Spelling">>]
            /\ Components(D[2]) =
                  [root |-> TRUE, names |-> <<"Library", "Spelling">>]
            /\ H.names # <<>> => Components(D[1]) # Components(D[2])

\* C15: the initializer of the static runs at most once however the threads
\* interleave, a call returns only the initialized list, the same to every
\* caller, and the list does not change once it is initialized
C15_InitializedOnce ==
    /\ [](/\ initialized <= 1
          /\ \A t \in Threads :
                Returned(t) =>
                    /\ initialized = 1
                    /\ once = "complete"
                    /\ threads[t].seen = LookupDirsInitializer(target_os, base_dirs)
          /\ \A t, u \in Threads :
                (Returned(t) /\ Returned(u)) => threads[t].seen = threads[u].seen)
    /\ [][once = "complete" =>
            OS_SPECIFIC_LOOKUP_DIRS' = OS_SPECIFIC_LOOKUP_DIRS]_vars

\* two threads were inside os_specific_search_dirs() at the same time, one
\* of them initializing, and both have returned the list
C15_Witness ==
    /\ initialized = 1
    /\ OS_SPECIFIC_LOOKUP_DIRS # <<>>
    /\ \E t, u \in Threads :
          /\ t # u
          /\ Returned(t) /\ threads[t].calls = 1
          /\ Returned(u) /\ threads[u].calls = 1
          /\ threads[t].seen = OS_SPECIFIC_LOOKUP_DIRS
          /\ threads[u].seen = OS_SPECIFIC_LOOKUP_DIRS

-----------------------------------------------------------------------------
(* Claims about the converters, checked under SpecClassify *)

\* C21: literal_set_from_block_comment returns Err for every token whose
\* kind is not BlockComment and literal_from_line_comment returns Err for
\* every token whose kind is not LineComment; no literal is made
C21_ConvertersRejectOtherKinds ==
    pc = "converted" =>
        /\ Len(converted) = Len(with_type)
        /\ \A i \in 1..Len(with_type) :
              /\ with_type[i].kind # "BlockComment" => converted[i].set = Err
              /\ with_type[i].kind # "LineComment" => converted[i].literal = Err

\* a block comment given to both converters: a set from the first, Err from
\* the second
C21_Witness ==
    /\ pc = "converted"
    /\ with_type[1].kind = "BlockComment"
    /\ converted[1].set.ok
    /\ converted[1].literal = Err

\* a line comment given to both converters: Err from the first, a literal
\* from the second
C21_WitnessLine ==
    /\ pc = "converted"
    /\ with_type[1].kind = "LineComment"
    /\ converted[1].set = Err
    /\ converted[1].literal.ok

\* a doc comment, classified Other, given to both converters: Err from both
C21_WitnessDoc ==
    /\ pc = "converted"
    /\ with_type[1].content = <<"/", "/", "/", "a">>
    /\ converted[1].set = Err
    /\ converted[1].literal = Err

-----------------------------------------------------------------------------
(* Claims about serialization, checked under SpecDirs *)

\* C22: after k serialize-then-deserialize round trips of a SearchDirs of n
\* paths on an OS with d defaults the list has n + k * d paths and starts
\* with the n paths unchanged; the round trip returns the same list exactly
\* when d = 0
C22_RoundTripAppendsDefaults ==
    \A t \in Threads :
        (Returned(t) /\ threads[t].trips > 0) =>
            LET k == threads[t].trips
                n == Len(threads[t].origin)
                d == Len(OS_SPECIFIC_LOOKUP_DIRS)
                dirs == threads[t].dirs
            IN  /\ Len(dirs) = n + k * d
                /\ SubSeq(dirs, 1, n) = threads[t].origin
                /\ \A j \in 1..k : \A i \in 1..d :
                      dirs[n + (j - 1) * d + i] = OS_SPECIFIC_LOOKUP_DIRS[i]
                /\ (dirs = threads[t].origin) <=> (d = 0)

\* on Linux a value of six paths has made two round trips and holds twelve
C22_Witness ==
    \E t \in Threads :
        /\ Returned(t)
        /\ threads[t].trips = 2
        /\ target_os = "linux"
        /\ Len(threads[t].origin) = 6
        /\ Len(threads[t].dirs) = 12

\* on an OS without defaults a round trip has returned the list it started
\* from
C22_WitnessNoDefaults ==
    \E t \in Threads :
        /\ Returned(t)
        /\ threads[t].trips = 1
        /\ target_os = "other"
        /\ threads[t].origin # <<>>
        /\ threads[t].dirs = threads[t].origin

====
